---- MODULE Spec2Model ----
(***************************************************************************)
(* Model of the task-management example service:                           *)
(*   - examples/models/task.rs      Task, CreateTaskRequest,               *)
(*                                  UpdateTaskRequest, TaskQuery           *)
(*   - examples/handlers/tasks.rs   list_tasks, create_task, update_task   *)
(*   - examples/errors/api_error.rs ApiError and its response conversion   *)
(*                                                                         *)
(* Option<T> is modelled as a sequence of length at most one: None is <<>> *)
(* and Some(x) is <<x>>.  Timestamps are naturals read from a clock that   *)
(* never goes back and may advance between any two reads.  Strings that    *)
(* are formatted or searched (error messages) are sequences of words, so   *)
(* that format!() is concatenation and "appears in" is an infix test.      *)
(***************************************************************************)
EXTENDS Integers, Sequences, FiniteSets, TLC

VARIABLES
    task,           \* the Task under observation (task.rs:46-57)
    clock,          \* the value the next Utc::now() returns at the earliest
    call,           \* the last Task / DTO operation: [op, arg, reads]
    everCompleted,  \* history: status was set to Completed since creation
    ret,            \* what the last call returned: [fn, value]
    err,            \* the ApiError at hand (api_error.rs:16-60)
    response,       \* the last response built by into_response
    log,            \* the records written through tracing::error!
    effects,        \* what the last into_response did, in program order
    query,          \* the TaskQuery at hand (task.rs:221-228)
    request         \* the create / update request at hand (task.rs:113-164)

vars == <<task, clock, call, everCompleted, ret, err, response, log, effects,
          query, request>>

taskVars == <<task, clock, call, everCompleted>>
errVars == <<err, response, log, effects>>
dtoVars == <<query, request>>

----------------------------------------------------------------------------
(* Bounds *)

MaxClock == 2
MaxLog == 2

----------------------------------------------------------------------------
(* Option<T> *)

None == <<>>
Some(x) == <<x>>
IsSome(o) == o /= <<>>
Unwrap(o) == o[1]
Option(S) == {None} \cup {Some(x) : x \in S}

----------------------------------------------------------------------------
(* Input domains *)

TaskPriority == {"Low", "Medium", "High", "Critical"}
TaskStatus == {"Pending", "InProgress", "Completed", "Cancelled"}
DefaultPriority == "Medium"
DefaultStatus == "Pending"

Titles == {"t1"}
Descriptions == {"d1"}
Uuids == {"u1", "u2"}
Users == {"u1"}
Time == 0..MaxClock

\* Uuid::new_v4 returns an identifier that is not in use yet.
FreshUuids(user_id) == Uuids \ {user_id}

CreateTaskRequests ==
    [title : Titles, description : Option(Descriptions),
     priority : Option({"High"}), due_date : Option({1})]

UpdateTaskRequests ==
    [title : Option({"t2"}), description : Option(Descriptions),
     priority : Option({"Low"}), status : Option({"Completed", "InProgress"}),
     due_date : Option({0})]

\* The values n successive reads of the clock can return, starting at `from`.
RECURSIVE ClockReads(_, _)
ClockReads(from, n) ==
    IF n = 0 THEN {<<>>}
    ELSE UNION {{<<t>> \o rest : rest \in ClockReads(t, n - 1)} : t \in from..MaxClock}

Last(s) == s[Len(s)]

----------------------------------------------------------------------------
(* Task (task.rs) *)

\* Task::new: one read of the clock, used for both timestamps.
TaskNew(id, title, user_id, reads) ==
    LET now == reads[1] IN
    [id |-> id, title |-> title, description |-> None,
     priority |-> DefaultPriority, status |-> DefaultStatus,
     user_id |-> user_id, created_at |-> now, updated_at |-> now,
     due_date |-> None, completed_at |-> None]

\* Task::complete that forgets to re-stamp updated_at.
TaskCompleteNoStamp(t, reads) ==
    [t EXCEPT !.status = "Completed",
              !.completed_at = Some(reads[1])]

\* Task::complete: completed_at and updated_at come from two reads.
TaskComplete(t, reads) ==
    [t EXCEPT !.status = "Completed",
              !.completed_at = Some(reads[1]),
              !.updated_at = reads[2]]

\* Number of clock reads of Task::update_status.
UpdateStatusReads(status) == IF status = "Completed" THEN 2 ELSE 1

\* Task::update_status that clears completed_at on leaving Completed.
TaskUpdateStatusClearing(t, status, reads) ==
    LET t1 == [t EXCEPT !.status = status, !.updated_at = reads[1]] IN
    IF status = "Completed"
    THEN [t1 EXCEPT !.completed_at = Some(reads[2])]
    ELSE [t1 EXCEPT !.completed_at = None]

\* Task::update_status
TaskUpdateStatus(t, status, reads) ==
    LET t1 == [t EXCEPT !.status = status, !.updated_at = reads[1]] IN
    IF status = "Completed"
    THEN [t1 EXCEPT !.completed_at = Some(reads[2])]
    ELSE t1

\* Task::is_overdue without the status test.
TaskIsOverdueAnyStatus(t, now) ==
    IF IsSome(t.due_date)
    THEN now > Unwrap(t.due_date)
    ELSE FALSE

\* Task::is_overdue with >= in place of >.
TaskIsOverdueInclusive(t, now) ==
    IF IsSome(t.due_date)
    THEN IF t.status /= "Completed"
         THEN now >= Unwrap(t.due_date)
         ELSE FALSE
    ELSE FALSE

\* Task::is_overdue
TaskIsOverdue(t, now) ==
    IF IsSome(t.due_date)
    THEN IF t.status /= "Completed"
         THEN now > Unwrap(t.due_date)
         ELSE FALSE
    ELSE FALSE

\* CreateTaskRequest::into_task
IntoTask(req, id, user_id, reads) ==
    LET t == TaskNew(id, req.title, user_id, reads) IN
    [t EXCEPT !.description = req.description,
              !.priority = IF IsSome(req.priority) THEN Unwrap(req.priority)
                           ELSE DefaultPriority,
              !.due_date = req.due_date]

\* Number of clock reads of UpdateTaskRequest::apply_to_task.
ApplyReads(upd) ==
    (IF IsSome(upd.status) THEN UpdateStatusReads(Unwrap(upd.status)) ELSE 0) + 1

\* UpdateTaskRequest::apply_to_task that copies the description even when
\* the update carries none.
ApplyToTaskCopyDescription(upd, t, reads) ==
    LET t1 == IF IsSome(upd.title)
              THEN [t EXCEPT !.title = Unwrap(upd.title)] ELSE t
        t2 == [t1 EXCEPT !.description = upd.description]
        t3 == IF IsSome(upd.priority)
              THEN [t2 EXCEPT !.priority = Unwrap(upd.priority)] ELSE t2
        t4 == IF IsSome(upd.status)
              THEN TaskUpdateStatus(t3, Unwrap(upd.status), reads) ELSE t3
        t5 == IF IsSome(upd.due_date)
              THEN [t4 EXCEPT !.due_date = Some(Unwrap(upd.due_date))] ELSE t4
    IN [t5 EXCEPT !.updated_at = Last(reads)]

\* UpdateTaskRequest::apply_to_task
ApplyToTask(upd, t, reads) ==
    LET t1 == IF IsSome(upd.title)
              THEN [t EXCEPT !.title = Unwrap(upd.title)] ELSE t
        t2 == IF IsSome(upd.description)
              THEN [t1 EXCEPT !.description = Some(Unwrap(upd.description))] ELSE t1
        t3 == IF IsSome(upd.priority)
              THEN [t2 EXCEPT !.priority = Unwrap(upd.priority)] ELSE t2
        t4 == IF IsSome(upd.status)
              THEN TaskUpdateStatus(t3, Unwrap(upd.status), reads) ELSE t3
        t5 == IF IsSome(upd.due_date)
              THEN [t4 EXCEPT !.due_date = Some(Unwrap(upd.due_date))] ELSE t4
    IN [t5 EXCEPT !.updated_at = Last(reads)]

----------------------------------------------------------------------------
(* Operations on the task *)

NoArg == <<>>
NoReturn == [fn |-> "none", value |-> FALSE]
NoError == [kind |-> "none", detail |-> <<>>]
NoResponse == [status |-> 0, body |-> <<>>]
NoQuery == <<>>
NoRequest == <<>>

NewCall ==
    \E user \in Users, title \in Titles, reads \in ClockReads(clock, 1) :
    \E id \in FreshUuids(user) :
        /\ task' = TaskNew(id, title, user, reads)
        /\ clock' = Last(reads)
        /\ call' = [op |-> "new", arg |-> NoArg, reads |-> reads]
        /\ everCompleted' = FALSE
        /\ ret' = NoReturn
        /\ UNCHANGED <<errVars, dtoVars>>

IntoTaskCall ==
    \E req \in CreateTaskRequests, user \in Users, reads \in ClockReads(clock, 1) :
    \E id \in FreshUuids(user) :
        /\ task' = IntoTask(req, id, user, reads)
        /\ clock' = Last(reads)
        /\ call' = [op |-> "into_task", arg |-> req, reads |-> reads]
        /\ everCompleted' = FALSE
        /\ ret' = NoReturn
        /\ UNCHANGED <<errVars, dtoVars>>

CompleteCall ==
    \E reads \in ClockReads(clock, 2) :
        /\ task' = TaskComplete(task, reads)
        /\ clock' = Last(reads)
        /\ call' = [op |-> "complete", arg |-> NoArg, reads |-> reads]
        /\ everCompleted' = TRUE
        /\ ret' = NoReturn
        /\ UNCHANGED <<errVars, dtoVars>>

UpdateStatusCall ==
    \E status \in TaskStatus :
    \E reads \in ClockReads(clock, UpdateStatusReads(status)) :
        /\ task' = TaskUpdateStatus(task, status, reads)
        /\ clock' = Last(reads)
        /\ call' = [op |-> "update_status", arg |-> status, reads |-> reads]
        /\ everCompleted' = (everCompleted \/ status = "Completed")
        /\ ret' = NoReturn
        /\ UNCHANGED <<errVars, dtoVars>>

ApplyToTaskCall ==
    \E upd \in UpdateTaskRequests :
    \E reads \in ClockReads(clock, ApplyReads(upd)) :
        /\ task' = ApplyToTask(upd, task, reads)
        /\ clock' = Last(reads)
        /\ call' = [op |-> "apply_to_task", arg |-> upd, reads |-> reads]
        /\ everCompleted' = (everCompleted \/ upd.status = Some("Completed"))
        /\ ret' = NoReturn
        /\ UNCHANGED <<errVars, dtoVars>>

IsOverdueCall ==
    \E reads \in ClockReads(clock, 1) :
        /\ ret' = [fn |-> "is_overdue", value |-> TaskIsOverdue(task, reads[1])]
        /\ clock' = Last(reads)
        /\ call' = [op |-> "is_overdue", arg |-> NoArg, reads |-> reads]
        /\ UNCHANGED <<task, everCompleted, errVars, dtoVars>>

----------------------------------------------------------------------------
(* ApiError (api_error.rs) *)

ErrorKinds ==
    {"Database", "Validation", "Authentication", "Authorization", "NotFound",
     "Conflict", "RateLimit", "ExternalService", "Internal", "Jwt",
     "Serialization"}

\* The text an error carries: the String of a variant, or the Display of the
\* wrapped sqlx / jsonwebtoken / serde_json error.
Details == {<<"disk", "full">>, <<"error">>}
Resources == {<<"user">>}

Errors == [kind : ErrorKinds, detail : Details]

\* The #[error("...: {0}")] attributes: the text in front of the detail.
DisplayPrefix(kind) ==
    CASE kind = "Database" -> <<"Database", "error:">>
      [] kind = "Validation" -> <<"Validation", "error:">>
      [] kind = "Authentication" -> <<"Authentication", "failed:">>
      [] kind = "Authorization" -> <<"Authorization", "failed:">>
      [] kind = "NotFound" -> <<"Resource", "not", "found:">>
      [] kind = "Conflict" -> <<"Conflict:">>
      [] kind = "RateLimit" -> <<"Rate", "limit", "exceeded:">>
      [] kind = "ExternalService" -> <<"External", "service", "error:">>
      [] kind = "Internal" -> <<"Internal", "server", "error:">>
      [] kind = "Jwt" -> <<"JWT", "error:">>
      [] kind = "Serialization" -> <<"Serialization", "error:">>

\* impl Display (derived by thiserror): self.to_string()
Display(e) == DisplayPrefix(e.kind) \o e.detail

\* impl Debug (derived): the variant name and its payload.
DebugFmt(e) == <<e.kind>> \o e.detail

\* ApiError::status_code with the gateway error folded into the 500 arm.
StatusCodeNoGateway(e) ==
    CASE e.kind \in {"Database", "ExternalService", "Internal"} -> 500
      [] e.kind \in {"Validation", "Serialization"} -> 400
      [] e.kind \in {"Authentication", "Jwt"} -> 401
      [] e.kind = "Authorization" -> 403
      [] e.kind = "NotFound" -> 404
      [] e.kind = "Conflict" -> 409
      [] e.kind = "RateLimit" -> 429

\* ApiError::status_code
StatusCode(e) ==
    CASE e.kind = "Database" -> 500
      [] e.kind = "Validation" -> 400
      [] e.kind = "Authentication" -> 401
      [] e.kind = "Authorization" -> 403
      [] e.kind = "NotFound" -> 404
      [] e.kind = "Conflict" -> 409
      [] e.kind = "RateLimit" -> 429
      [] e.kind = "ExternalService" -> 502
      [] e.kind = "Internal" -> 500
      [] e.kind = "Jwt" -> 401
      [] e.kind = "Serialization" -> 400

\* ApiError::error_code
ErrorCode(e) ==
    CASE e.kind = "Database" -> "DATABASE_ERROR"
      [] e.kind = "Validation" -> "VALIDATION_ERROR"
      [] e.kind = "Authentication" -> "AUTHENTICATION_ERROR"
      [] e.kind = "Authorization" -> "AUTHORIZATION_ERROR"
      [] e.kind = "NotFound" -> "NOT_FOUND"
      [] e.kind = "Conflict" -> "CONFLICT"
      [] e.kind = "RateLimit" -> "RATE_LIMIT_EXCEEDED"
      [] e.kind = "ExternalService" -> "EXTERNAL_SERVICE_ERROR"
      [] e.kind = "Internal" -> "INTERNAL_ERROR"
      [] e.kind = "Jwt" -> "JWT_ERROR"
      [] e.kind = "Serialization" -> "SERIALIZATION_ERROR"

\* ApiError::should_log without the ExternalService arm.
ShouldLogNoExternal(e) ==
    CASE e.kind \in {"Database", "Internal"} -> TRUE
      [] OTHER -> FALSE

\* ApiError::should_log
ShouldLog(e) ==
    CASE e.kind \in {"Database", "ExternalService", "Internal"} -> TRUE
      [] OTHER -> FALSE

DatabaseMessage ==
    <<"A", "database", "error", "occurred.", "Please", "try", "again", "later.">>
ExternalServiceMessage ==
    <<"An", "external", "service", "is", "temporarily", "unavailable.">>
InternalMessage ==
    <<"An", "internal", "error", "occurred.", "Please", "try", "again", "later.">>

\* ApiError::user_message without the Internal arm: the detail leaks.
UserMessageLeaky(e) ==
    CASE e.kind = "Database" -> DatabaseMessage
      [] e.kind = "ExternalService" -> ExternalServiceMessage
      [] OTHER -> Display(e)

\* ApiError::user_message returning the bare payload instead of to_string().
UserMessageBare(e) ==
    CASE e.kind = "Database" -> DatabaseMessage
      [] e.kind = "ExternalService" -> ExternalServiceMessage
      [] e.kind = "Internal" -> InternalMessage
      [] OTHER -> e.detail

\* ApiError::user_message
UserMessage(e) ==
    CASE e.kind = "Database" -> DatabaseMessage
      [] e.kind = "ExternalService" -> ExternalServiceMessage
      [] e.kind = "Internal" -> InternalMessage
      [] OTHER -> Display(e)

\* ApiError::not_found
NotFound(resource) ==
    [kind |-> "NotFound", detail |-> resource \o <<"not", "found">>]

\* The record tracing::error!("API Error: {:?}", self) writes.
LogRecord(e) == <<"API", "Error:">> \o DebugFmt(e)

\* The json!({...}) body of into_response.
ResponseBody(e, status_code) ==
    [error |-> [code |-> ErrorCode(e),
                message |-> UserMessage(e),
                status |-> status_code]]

\* into_response that logs every error.
IntoResponseLogAll(e, lg) ==
    LET status_code == StatusCode(e)
    IN [response |-> [status |-> status_code, body |-> ResponseBody(e, status_code)],
        log |-> Append(lg, LogRecord(e)),
        effects |-> <<"log", "respond">>]

\* impl IntoResponse for ApiError: the response, the log after the call and
\* the order of the two effects.
IntoResponse(e, lg) ==
    LET status_code == StatusCode(e)
        logged == ShouldLog(e)
    IN [response |-> [status |-> status_code, body |-> ResponseBody(e, status_code)],
        log |-> IF logged THEN Append(lg, LogRecord(e)) ELSE lg,
        effects |-> IF logged THEN <<"log", "respond">> ELSE <<"respond">>]


Init ==
    /\ clock = 0
    /\ \E user \in Users, title \in Titles :
       \E id \in FreshUuids(user) :
         task = TaskNew(id, title, user, <<clock>>)
    /\ call = [op |-> "new", arg |-> NoArg, reads |-> <<clock>>]
    /\ everCompleted = FALSE
    /\ ret = NoReturn
    /\ err = NoError
    /\ response = NoResponse
    /\ log = <<>>
    /\ effects = <<>>
    /\ query = NoQuery
    /\ request = NoRequest

Next ==
    \/ NewCall
    \/ IntoTaskCall
    \/ CompleteCall
    \/ UpdateStatusCall
    \/ ApplyToTaskCall
    \/ IsOverdueCall

Spec == Init /\ [][Next]_vars

----------------------------------------------------------------------------
(* Properties of the task lifecycle, checked under Spec *)

Range(s) == {s[i] : i \in DOMAIN s}

Creates(c) == c.op \in {"new", "into_task"}

\* The call set the status to Completed.
SetsCompleted(c) ==
    \/ c.op = "complete"
    \/ c.op = "update_status" /\ c.arg = "Completed"
    \/ c.op = "apply_to_task" /\ c.arg.status = Some("Completed")

\* C1: completed_at is Some exactly when the status has been set to
\* Completed since the task was created: it is None right after creation,
\* Some after every call that sets the status to Completed, and no call on
\* the task clears it again.
C1_CompletedAtIffEverCompleted ==
    /\ [](/\ IsSome(task.completed_at) <=> everCompleted
          /\ Creates(call) => task.completed_at = None
          /\ SetsCompleted(call) => IsSome(task.completed_at))
    /\ [][(IsSome(task.completed_at) /\ ~Creates(call'))
            => IsSome(task'.completed_at)]_vars

\* A task that was completed and then moved away from Completed keeps its
\* completed_at.
C1_Witness ==
    /\ call.op = "update_status"
    /\ task.status = "Cancelled"
    /\ everCompleted
    /\ IsSome(task.completed_at)

\* C2: the timestamps one call writes are the same instant: created_at =
\* updated_at after a creation, completed_at = updated_at right after a call
\* that sets the status to Completed.
C2_SameInstant ==
    /\ Creates(call) => task.created_at = task.updated_at
    /\ SetsCompleted(call) => task.completed_at = Some(task.updated_at)

\* C3: under the non-decreasing clock updated_at >= created_at, every
\* creating or mutating call leaves updated_at at a value the clock returned
\* during that call, and updated_at never decreases.
C3_UpdatedAtMonotone ==
    /\ [](/\ task.updated_at >= task.created_at
          /\ call.op /= "is_overdue" => task.updated_at \in Range(call.reads))
    /\ [][/\ task'.updated_at >= task.updated_at
          /\ call'.op /= "is_overdue" => \A r \in Range(call'.reads) : r >= clock]_vars

\* complete() moved updated_at past created_at.
C3_Witness ==
    /\ call.op = "complete"
    /\ task.updated_at > task.created_at
    /\ Len(call.reads) = 2
    /\ call.reads[1] < call.reads[2]

\* C4: apply_to_task overwrites exactly the fields the update carries, keeps
\* the absent ones and id, user_id and created_at, re-stamps updated_at on
\* every call, and changes completed_at only when the update sets the status
\* to Completed.
C4_ApplyFrame ==
    [][call'.op = "apply_to_task" =>
        LET upd == call'.arg IN
        /\ task'.title = IF IsSome(upd.title) THEN Unwrap(upd.title) ELSE task.title
        /\ task'.description = IF IsSome(upd.description) THEN upd.description
                               ELSE task.description
        /\ task'.priority = IF IsSome(upd.priority) THEN Unwrap(upd.priority)
                            ELSE task.priority
        /\ task'.status = IF IsSome(upd.status) THEN Unwrap(upd.status)
                          ELSE task.status
        /\ task'.due_date = IF IsSome(upd.due_date) THEN upd.due_date
                            ELSE task.due_date
        /\ task'.id = task.id
        /\ task'.user_id = task.user_id
        /\ task'.created_at = task.created_at
        /\ task'.updated_at \in Range(call'.reads)
        /\ task'.updated_at >= clock
        /\ task'.updated_at = clock'
        /\ IF upd.status = Some("Completed")
           THEN IsSome(task'.completed_at)
                /\ Unwrap(task'.completed_at) \in Range(call'.reads)
           ELSE task'.completed_at = task.completed_at]_vars

\* An update with every field absent still re-stamped updated_at, and left a
\* description in place.
C4_Witness ==
    /\ call.op = "apply_to_task"
    /\ call.arg = [title |-> None, description |-> None, priority |-> None,
                   status |-> None, due_date |-> None]
    /\ task.updated_at > task.created_at
    /\ IsSome(task.description)

\* C5: is_overdue returns true exactly when the task has a due date, its
\* status is not Completed and the time read is strictly after the due date;
\* so a task whose status is Completed is never reported overdue.
C5_IsOverdue ==
    call.op = "is_overdue" =>
        /\ ret.value = (/\ IsSome(task.due_date)
                        /\ task.status /= "Completed"
                        /\ call.reads[1] > Unwrap(task.due_date))
        /\ task.status = "Completed" => ret.value = FALSE

\* A completed task whose due date is in the past is not overdue.
C5_Witness ==
    /\ call.op = "is_overdue"
    /\ task.status = "Completed"
    /\ IsSome(task.due_date)
    /\ call.reads[1] > Unwrap(task.due_date)
    /\ ret.value = FALSE

----------------------------------------------------------------------------
(* Operations on errors *)

\* An error is raised: a variant is constructed around its detail.  Nothing
\* has been computed from the new error yet; the log is kept.
RaiseCall ==
    \E e \in Errors :
        /\ err' = e
        /\ ret' = NoReturn
        /\ response' = NoResponse
        /\ effects' = <<>>
        /\ UNCHANGED <<dtoVars, taskVars, log>>

NotFoundCall ==
    \E resource \in Resources :
        /\ err' = NotFound(resource)
        /\ ret' = NoReturn
        /\ response' = NoResponse
        /\ effects' = <<>>
        /\ UNCHANGED <<dtoVars, taskVars, log>>

\* The error is at hand: it was raised and not yet moved into a response.
ErrAtHand == err /= NoError /\ response = NoResponse

StatusCodeCall ==
    /\ ErrAtHand
    /\ ret' = [fn |-> "status_code", value |-> StatusCode(err)]
    /\ UNCHANGED <<dtoVars, taskVars, errVars>>

ErrorCodeCall ==
    /\ ErrAtHand
    /\ ret' = [fn |-> "error_code", value |-> ErrorCode(err)]
    /\ UNCHANGED <<dtoVars, taskVars, errVars>>

ShouldLogCall ==
    /\ ErrAtHand
    /\ ret' = [fn |-> "should_log", value |-> ShouldLog(err)]
    /\ UNCHANGED <<dtoVars, taskVars, errVars>>

UserMessageCall ==
    /\ ErrAtHand
    /\ ret' = [fn |-> "user_message", value |-> UserMessage(err)]
    /\ UNCHANGED <<dtoVars, taskVars, errVars>>

\* into_response takes the error by value; `err` keeps naming the error the
\* response was built from until the next error is raised.
IntoResponseCall ==
    /\ ErrAtHand
    /\ ShouldLog(err) => Len(log) < MaxLog
    /\ LET r == IntoResponse(err, log) IN
         /\ response' = r.response
         /\ log' = r.log
         /\ effects' = r.effects
    /\ UNCHANGED <<dtoVars, taskVars, ret, err>>

InitErr ==
    /\ clock = 0
    /\ task = TaskNew("u2", "t1", "u1", <<0>>)
    /\ call = [op |-> "new", arg |-> NoArg, reads |-> <<0>>]
    /\ everCompleted = FALSE
    /\ ret = NoReturn
    /\ err \in Errors
    /\ response = NoResponse
    /\ log = <<>>
    /\ effects = <<>>
    /\ query = NoQuery
    /\ request = NoRequest

NextErr ==
    \/ RaiseCall
    \/ NotFoundCall
    \/ StatusCodeCall
    \/ ErrorCodeCall
    \/ ShouldLogCall
    \/ UserMessageCall
    \/ IntoResponseCall

SpecErr == InitErr /\ [][NextErr]_vars

----------------------------------------------------------------------------
(* Properties of the error taxonomy, checked under SpecErr *)

HiddenKinds == {"Database", "ExternalService", "Internal"}

GenericMessages == {DatabaseMessage, ExternalServiceMessage, InternalMessage}

\* needle occurs in hay as a run of consecutive words
IsInfix(needle, hay) ==
    \E i \in 0..(Len(hay) - Len(needle)) :
        SubSeq(hay, i + 1, i + Len(needle)) = needle

\* text occurs in one of the three values of the body
AppearsInBody(text, body) ==
    \/ IsInfix(text, body.error.message)
    \/ IsInfix(text, <<body.error.code>>)
    \/ IsInfix(text, <<ToString(body.error.status)>>)

Responded == response /= NoResponse

\* The same kind of error around another detail.
SameKind(e) == {e2 \in Errors : e2.kind = e.kind /\ e2.detail /= e.detail}

\* C6 as stated: for Database, ExternalService and Internal the message and
\* the body are the same for any two details, and the detail text never
\* appears in the body.
C6_DetailNeverInBody ==
    err.kind \in HiddenKinds =>
        /\ ret.fn = "user_message" =>
             \A e2 \in SameKind(err) : UserMessage(e2) = ret.value
        /\ Responded =>
             /\ \A e2 \in SameKind(err) :
                  IntoResponse(e2, <<>>).response.body = response.body
             /\ ~AppearsInBody(err.detail, response.body)

\* C6 (amended): for Database, ExternalService and Internal the message and
\* the body are the same for any two details, and the detail text appears in
\* the body only where it coincides with text that the body of every error
\* of that kind carries.
C6_BodyIndependentOfDetail ==
    err.kind \in HiddenKinds =>
        /\ ret.fn = "user_message" =>
             /\ ret.value \in GenericMessages
             /\ \A e2 \in SameKind(err) : UserMessage(e2) = ret.value
        /\ Responded =>
             /\ response.body.error.message \in GenericMessages
             /\ \A e2 \in SameKind(err) :
                  /\ IntoResponse(e2, <<>>).response.body = response.body
                  /\ AppearsInBody(err.detail, response.body)
                       => AppearsInBody(err.detail, IntoResponse(e2, <<>>).response.body)

\* An internal error around a detail that does not occur in the generic
\* sentence was turned into a response.
C6_Witness ==
    /\ Responded
    /\ err = [kind |-> "Internal", detail |-> <<"disk", "full">>]
    /\ response.body.error.message = InternalMessage
    /\ ~AppearsInBody(err.detail, response.body)

\* C7 as stated: for the eight kinds whose detail is not hidden,
\* user_message returns exactly the detail the error was constructed with.
C7_MessageIsDetail ==
    (ret.fn = "user_message" /\ err.kind \notin HiddenKinds)
        => ret.value = err.detail

\* C7 (amended): for the eight kinds whose detail is not hidden,
\* user_message returns the error's Display text: the fixed, non-empty prefix
\* of the kind followed by the detail verbatim.
C7_MessageIsDisplay ==
    (ret.fn = "user_message" /\ err.kind \notin HiddenKinds) =>
        /\ ret.value = DisplayPrefix(err.kind) \o err.detail
        /\ Len(ret.value) > Len(err.detail)
        /\ SubSeq(ret.value, Len(ret.value) - Len(err.detail) + 1, Len(ret.value))
             = err.detail
        /\ err.kind = "Validation" =>
             ret.value = <<"Validation", "error:">> \o err.detail

\* user_message of a validation error, as in test_user_messages.
C7_Witness ==
    /\ ret.fn = "user_message"
    /\ err = [kind |-> "Validation", detail |-> <<"disk", "full">>]
    /\ ret.value = <<"Validation", "error:", "disk", "full">>

ExpectedStatus ==
    [k \in ErrorKinds |->
        CASE k \in {"Database", "Internal"} -> 500
          [] k \in {"Validation", "Serialization"} -> 400
          [] k \in {"Authentication", "Jwt"} -> 401
          [] k = "Authorization" -> 403
          [] k = "NotFound" -> 404
          [] k = "Conflict" -> 409
          [] k = "RateLimit" -> 429
          [] k = "ExternalService" -> 502]

\* C8: status_code is defined for all eleven kinds, depends on the kind only
\* and follows the table; error_code is one constant per kind and distinct
\* kinds have distinct codes.
C8_MappingTable ==
    /\ ret.fn = "status_code" =>
         /\ ret.value = ExpectedStatus[err.kind]
         /\ \A e2 \in SameKind(err) : StatusCode(e2) = ret.value
    /\ ret.fn = "error_code" =>
         /\ \A e2 \in SameKind(err) : ErrorCode(e2) = ret.value
         /\ \A e2 \in Errors : e2.kind /= err.kind => ErrorCode(e2) /= ret.value
         /\ err.kind = "RateLimit" => ret.value = "RATE_LIMIT_EXCEEDED"
         /\ err.kind = "Validation" => ret.value = "VALIDATION_ERROR"

\* status_code of an external-service error is 502.
C8_Witness ==
    /\ ret.fn = "status_code"
    /\ err.kind = "ExternalService"
    /\ ret.value = 502

\* C9: should_log is true exactly for Database, ExternalService and Internal;
\* that is exactly when the user-facing message is a generic sentence; logged
\* kinds map to 5xx and the others to 4xx.
C9_ShouldLog ==
    ret.fn = "should_log" =>
        /\ ret.value = (err.kind \in HiddenKinds)
        /\ ret.value = (UserMessage(err) \in GenericMessages)
        /\ ret.value => StatusCode(err) \in 500..599
        /\ ~ret.value => StatusCode(err) \in 400..499

\* should_log of an external-service error is true.
C9_Witness ==
    /\ ret.fn = "should_log"
    /\ err.kind = "ExternalService"
    /\ ret.value = TRUE

\* C10: the response carries status_code as its status and a body whose code,
\* message and status are error_code, user_message and that same status; the
\* full error is written to the log, before the response is produced, exactly
\* when should_log is true, and the log is left alone otherwise.
C10_Response ==
    /\ [](Responded =>
            /\ response.status = StatusCode(err)
            /\ DOMAIN response.body = {"error"}
            /\ DOMAIN response.body.error = {"code", "message", "status"}
            /\ response.body.error.code = ErrorCode(err)
            /\ response.body.error.message = UserMessage(err)
            /\ response.body.error.status = response.status
            /\ effects = IF err.kind \in HiddenKinds
                         THEN <<"log", "respond">> ELSE <<"respond">>
            /\ err.kind \in HiddenKinds =>
                 /\ Len(log) > 0
                 /\ IsInfix(<<err.kind>> \o err.detail, log[Len(log)]))
    /\ [][/\ (~Responded /\ Responded')
               => log' = IF err.kind \in HiddenKinds
                         THEN Append(log, <<"API", "Error:", err.kind>> \o err.detail)
                         ELSE log
          /\ log' /= log => (~Responded /\ Responded')]_vars

\* A database error was logged in full and answered with the generic body.
C10_Witness ==
    /\ Responded
    /\ err = [kind |-> "Database", detail |-> <<"disk", "full">>]
    /\ effects = <<"log", "respond">>
    /\ log[Len(log)] = <<"API", "Error:", "Database", "disk", "full">>
    /\ response.status = 500
    /\ response.body.error.status = 500

----------------------------------------------------------------------------
(* u32 arithmetic.  A u32 is four base-256 digits, least significant first, *)
(* so that the full 32-bit range and the 64-bit products are exact.         *)

ByteBase == 256
U32Digits == 4

U32Of(n) == [i \in 1..U32Digits |-> (n \div (ByteBase ^ (i - 1))) % ByteBase]
U32Max == [i \in 1..U32Digits |-> ByteBase - 1]
U32Zero == U32Of(0)

\* a < b
U32Less(a, b) ==
    LET diff == {i \in 1..U32Digits : a[i] /= b[i]} IN
    /\ diff /= {}
    /\ LET top == CHOOSE i \in diff : \A j \in diff : j <= i IN a[top] < b[top]

\* u32::min
U32Min(a, b) == IF U32Less(b, a) THEN b ELSE a

RECURSIVE SubDigits(_, _, _, _)
SubDigits(a, b, i, borrow) ==
    IF i > U32Digits THEN <<>>
    ELSE LET d == a[i] - b[i] - borrow IN
         IF d < 0 THEN <<d + ByteBase>> \o SubDigits(a, b, i + 1, 1)
         ELSE <<d>> \o SubDigits(a, b, i + 1, 0)

\* u32::saturating_sub
U32SaturatingSub(a, b) == IF U32Less(a, b) THEN U32Zero ELSE SubDigits(a, b, 1, 0)

RECURSIVE ColumnSum(_, _, _, _)
ColumnSum(a, b, k, i) ==
    IF i > U32Digits THEN 0
    ELSE (IF (k + 1 - i) \in 1..U32Digits THEN a[i] * b[k + 1 - i] ELSE 0)
         + ColumnSum(a, b, k, i + 1)

RECURSIVE MulDigits(_, _, _, _)
MulDigits(a, b, k, carry) ==
    IF k > 2 * U32Digits THEN <<>>
    ELSE LET t == ColumnSum(a, b, k, 1) + carry IN
         <<t % ByteBase>> \o MulDigits(a, b, k + 1, t \div ByteBase)

\* The mathematical product of two u32 values, eight digits wide.
WideMul(a, b) == MulDigits(a, b, 1, 0)

\* The zero-extension of a u32 to eight digits.
Widen(a) == a \o U32Zero

NoValue == <<>>

\* The `*` of two u32 values: on overflow the build with overflow checks
\* (debug) panics, the build without them (release) keeps the low 32 bits.
U32Mul(a, b, overflow_checks) ==
    LET wide == WideMul(a, b)
        low == SubSeq(wide, 1, U32Digits)
        overflow == wide /= Widen(low)
    IN IF overflow /\ overflow_checks
       THEN [aborted |-> TRUE, value |-> NoValue]
       ELSE [aborted |-> FALSE, value |-> low]

----------------------------------------------------------------------------
(* TaskQuery (task.rs) and the list handler (handlers/tasks.rs) *)

DefaultPage == 1
DefaultLimit == 20
MaxLimit == 100

\* 42949673 is the last page whose offset fits a u32 at limit 100.
Pages == {U32Of(0), U32Of(1), U32Of(3), U32Of(42949673), U32Of(42949674), U32Max}
Limits == {U32Of(0), U32Of(10), U32Of(100), U32Of(101), U32Max}

TaskQueries ==
    [status : Option({"Pending", "InProgress"}), priority : Option({"High"}),
     user_id : Option({"u1"}), overdue : Option(BOOLEAN),
     page : Option(Pages), limit : Option(Limits)]

\* TaskQuery::get_limit without the cap.
GetLimitNoCap(q) ==
    IF IsSome(q.limit) THEN Unwrap(q.limit) ELSE U32Of(DefaultLimit)

\* TaskQuery::get_limit
GetLimit(q) ==
    U32Min(IF IsSome(q.limit) THEN Unwrap(q.limit) ELSE U32Of(DefaultLimit),
           U32Of(MaxLimit))

\* TaskQuery::get_offset
GetOffset(q, overflow_checks) ==
    LET page == IF IsSome(q.page) THEN Unwrap(q.page) ELSE U32Of(DefaultPage)
        limit == GetLimit(q)
    IN U32Mul(U32SaturatingSub(page, U32Of(1)), limit, overflow_checks)

\* list_tasks: the page and limit it hands to the service and echoes in the
\* response; the status and priority filters are handed on unchanged.
ListTasks(lq) ==
    LET page == IF IsSome(lq.page) THEN Unwrap(lq.page) ELSE U32Of(1)
        limit == U32Min(IF IsSome(lq.limit) THEN Unwrap(lq.limit) ELSE U32Of(20),
                        U32Of(100))
    IN [page |-> page, limit |-> limit]

\* format!("{:?}", v).to_lowercase() of an enum value: the variant name in
\* lower case.
DebugLowercase(v) ==
    CASE v = "Pending" -> "pending"
      [] v = "InProgress" -> "inprogress"
      [] v = "Completed" -> "completed"
      [] v = "Cancelled" -> "cancelled"
      [] v = "Low" -> "low"
      [] v = "Medium" -> "medium"
      [] v = "High" -> "high"
      [] v = "Critical" -> "critical"

\* Uuid::to_string: the hyphenated text of the identifier.
UuidToString(u) ==
    CASE u = "u1" -> "00000000-0000-4000-8000-000000000001"
      [] u = "u2" -> "00000000-0000-4000-8000-000000000002"

\* The conditions build_where_clause pushes, as words.
StatusCondition == <<"status", "=", "?">>
PriorityCondition == <<"priority", "=", "?">>
UserIdCondition == <<"user_id", "=", "?">>
OverdueCondition == <<"due_date", "<", "NOW()", "AND", "status", "!=", "'completed'">>
TrueCondition == <<"1=1">>

\* conditions.join(" AND ")
RECURSIVE JoinAnd(_)
JoinAnd(conditions) ==
    IF Len(conditions) = 0 THEN <<>>
    ELSE IF Len(conditions) = 1 THEN conditions[1]
    ELSE conditions[1] \o <<"AND">> \o JoinAnd(Tail(conditions))

\* TaskQuery::build_where_clause that pushes the priority parameter in front
\* of the others.
BuildWhereClausePriorityFirst(q) ==
    LET c1 == IF IsSome(q.status) THEN <<StatusCondition>> ELSE <<>>
        p1 == IF IsSome(q.status) THEN <<DebugLowercase(Unwrap(q.status))>> ELSE <<>>
        c2 == IF IsSome(q.priority) THEN Append(c1, PriorityCondition) ELSE c1
        p2 == IF IsSome(q.priority)
              THEN <<DebugLowercase(Unwrap(q.priority))>> \o p1 ELSE p1
        c3 == IF IsSome(q.user_id) THEN Append(c2, UserIdCondition) ELSE c2
        p3 == IF IsSome(q.user_id)
              THEN Append(p2, UuidToString(Unwrap(q.user_id))) ELSE p2
        c4 == IF q.overdue = Some(TRUE) THEN Append(c3, OverdueCondition) ELSE c3
    IN [clause |-> IF Len(c4) = 0 THEN TrueCondition ELSE JoinAnd(c4),
        params |-> p3]

\* TaskQuery::build_where_clause
BuildWhereClause(q) ==
    LET c1 == IF IsSome(q.status) THEN <<StatusCondition>> ELSE <<>>
        p1 == IF IsSome(q.status) THEN <<DebugLowercase(Unwrap(q.status))>> ELSE <<>>
        c2 == IF IsSome(q.priority) THEN Append(c1, PriorityCondition) ELSE c1
        p2 == IF IsSome(q.priority)
              THEN Append(p1, DebugLowercase(Unwrap(q.priority))) ELSE p1
        c3 == IF IsSome(q.user_id) THEN Append(c2, UserIdCondition) ELSE c2
        p3 == IF IsSome(q.user_id)
              THEN Append(p2, UuidToString(Unwrap(q.user_id))) ELSE p2
        c4 == IF q.overdue = Some(TRUE) THEN Append(c3, OverdueCondition) ELSE c3
    IN [clause |-> IF Len(c4) = 0 THEN TrueCondition ELSE JoinAnd(c4),
        params |-> p3]

BuildWhereClauseCall ==
    /\ ret' = [fn |-> "build_where_clause", value |-> BuildWhereClause(query)]
    /\ UNCHANGED <<taskVars, errVars, dtoVars>>

GetLimitCall ==
    /\ ret' = [fn |-> "get_limit", value |-> GetLimit(query)]
    /\ UNCHANGED <<taskVars, errVars, dtoVars>>

GetOffsetCall ==
    \E overflow_checks \in BOOLEAN :
        /\ ret' = [fn |-> "get_offset", value |-> GetOffset(query, overflow_checks)]
        /\ UNCHANGED <<taskVars, errVars, dtoVars>>

ListTasksCall ==
    /\ ret' = [fn |-> "list_tasks",
               value |-> ListTasks([page |-> query.page, limit |-> query.limit])]
    /\ UNCHANGED <<taskVars, errVars, dtoVars>>

InitQuery ==
    /\ clock = 0
    /\ task = TaskNew("u2", "t1", "u1", <<0>>)
    /\ call = [op |-> "new", arg |-> NoArg, reads |-> <<0>>]
    /\ everCompleted = FALSE
    /\ ret = NoReturn
    /\ err = NoError
    /\ response = NoResponse
    /\ log = <<>>
    /\ effects = <<>>
    /\ query \in TaskQueries
    /\ request = NoRequest

NextQuery ==
    \/ BuildWhereClauseCall
    \/ GetLimitCall
    \/ GetOffsetCall
    \/ ListTasksCall

SpecQuery == InitQuery /\ [][NextQuery]_vars

----------------------------------------------------------------------------
(* Properties of TaskQuery, checked under SpecQuery *)

\* C11: get_offset returns (p - 1) * get_limit(), p being the page with an
\* absent page or page 0 taken as page 1, and the result is that exact
\* product: the computation neither aborts nor wraps; page 3 with limit 10
\* gives 20 and page 0 or an absent page gives 0.
C11_OffsetExact ==
    ret.fn = "get_offset" =>
        LET p == IF IsSome(query.page) /\ query.page /= Some(U32Zero)
                 THEN Unwrap(query.page) ELSE U32Of(1)
            pm1 == SubDigits(p, U32Of(1), 1, 0)
        IN /\ ~ret.value.aborted
           /\ Widen(ret.value.value) = WideMul(pm1, GetLimit(query))
           /\ (query.page = Some(U32Of(3)) /\ query.limit = Some(U32Of(10)))
                => ret.value.value = U32Of(20)
           /\ query.page \in {None, Some(U32Zero)} => ret.value.value = U32Zero

\* C12: get_limit returns the given limit when it is at most 100, 100 when it
\* is larger and 20 when it is absent, so never more than 100; list_tasks
\* normalises the same limit to the same value.
C12_LimitClamped ==
    /\ ret.fn = "get_limit" =>
         /\ ret.value = IF IsSome(query.limit)
                        THEN IF U32Less(U32Of(100), Unwrap(query.limit))
                             THEN U32Of(100) ELSE Unwrap(query.limit)
                        ELSE U32Of(20)
         /\ ~U32Less(U32Of(100), ret.value)
         /\ ListTasks([page |-> query.page, limit |-> query.limit]).limit = ret.value
    /\ ret.fn = "list_tasks" =>
         /\ ret.value.limit = GetLimit(query)
         /\ ~U32Less(U32Of(100), ret.value.limit)

\* A limit above the cap was clamped to 100.
C12_Witness ==
    /\ ret.fn = "get_limit"
    /\ query.limit = Some(U32Of(101))
    /\ ret.value = U32Of(100)

\* The positions of the placeholders in a clause, in order.
Placeholders(clause) == SelectSeq([i \in 1..Len(clause) |-> i], LAMBDA i : clause[i] = "?")

\* The value the query holds for the column a placeholder is compared with.
FilterValue(q, column) ==
    CASE column = "status" -> DebugLowercase(Unwrap(q.status))
      [] column = "priority" -> DebugLowercase(Unwrap(q.priority))
      [] column = "user_id" -> UuidToString(Unwrap(q.user_id))

\* C13: the clause is the AND-join of the predicates of the filters that are
\* present, in the order status, priority, owner, overdue; there are as many
\* parameters as placeholders and the i-th parameter is the value of the
\* filter of the i-th placeholder; overdue = true adds a predicate and no
\* parameter, overdue = false or absent adds nothing; with no contributing
\* filter the clause is 1=1 and the parameter list is empty.
C13_WhereClause ==
    ret.fn = "build_where_clause" =>
        LET clause == ret.value.clause
            params == ret.value.params
            holes == Placeholders(clause)
            all == <<[on |-> IsSome(query.status), text |-> <<"status", "=", "?">>],
                     [on |-> IsSome(query.priority), text |-> <<"priority", "=", "?">>],
                     [on |-> IsSome(query.user_id), text |-> <<"user_id", "=", "?">>],
                     [on |-> query.overdue = Some(TRUE),
                      text |-> <<"due_date", "<", "NOW()", "AND", "status", "!=",
                                 "'completed'">>]>>
            present == SelectSeq(all, LAMBDA c : c.on)
        IN /\ Len(params) = Len(holes)
           /\ \A i \in 1..Len(holes) :
                /\ holes[i] > 2
                /\ clause[holes[i] - 1] = "="
                /\ params[i] = FilterValue(query, clause[holes[i] - 2])
           /\ IF Len(present) = 0
              THEN clause = <<"1=1">> /\ params = <<>>
              ELSE clause = JoinAnd([i \in 1..Len(present) |-> present[i].text])
           /\ Len(params) = Cardinality({f \in {"status", "priority", "user_id"} :
                                            IsSome(query[f])})
           /\ query.overdue /= Some(TRUE) => \A i \in 1..Len(clause) : clause[i] /= "NOW()"

\* Status, priority and overdue = true: two placeholders, two parameters in
\* status-then-priority order, and the overdue predicate last.
C13_Witness ==
    /\ ret.fn = "build_where_clause"
    /\ query.status = Some("Pending")
    /\ query.priority = Some("High")
    /\ query.user_id = None
    /\ query.overdue = Some(TRUE)
    /\ ret.value.params = <<"pending", "high">>
    /\ ret.value.clause = <<"status", "=", "?", "AND", "priority", "=", "?", "AND",
                            "due_date", "<", "NOW()", "AND", "status", "!=",
                            "'completed'">>

----------------------------------------------------------------------------
(* Request validation (task.rs, handlers/tasks.rs).                         *)
(* A String is a sequence of runs [ch, n]: n times the character ch.  The   *)
(* characters are "a" (a letter), " " (a space) and "U+00E9" (e with acute  *)
(* accent, two bytes in UTF-8).                                             *)

MaxTitleLen == 255
MaxDescriptionLen == 2000

Run(ch, n) == [ch |-> ch, n |-> n]

\* char::len_utf8
Utf8Len(ch) == IF ch = "U+00E9" THEN 2 ELSE 1

\* char::is_whitespace
IsWhitespace(ch) == ch = " "

\* String::len: the length in bytes.
RECURSIVE StrLen(_)
StrLen(str) ==
    IF Len(str) = 0 THEN 0
    ELSE str[1].n * Utf8Len(str[1].ch) + StrLen(Tail(str))

\* str.chars().count(): the length in characters.
RECURSIVE StrLenChars(_)
StrLenChars(str) ==
    IF Len(str) = 0 THEN 0
    ELSE str[1].n + StrLenChars(Tail(str))

RECURSIVE TrimStart(_)
TrimStart(str) ==
    IF Len(str) = 0 THEN str
    ELSE IF str[1].n = 0 \/ IsWhitespace(str[1].ch) THEN TrimStart(Tail(str))
    ELSE str

RECURSIVE TrimEnd(_)
TrimEnd(str) ==
    IF Len(str) = 0 THEN str
    ELSE IF str[Len(str)].n = 0 \/ IsWhitespace(str[Len(str)].ch)
         THEN TrimEnd(SubSeq(str, 1, Len(str) - 1))
    ELSE str

\* str::trim
Trim(str) == TrimEnd(TrimStart(str))

\* str::is_empty
IsEmpty(str) == StrLen(str) = 0

ValidationTitles ==
    {<<>>, <<Run(" ", 3)>>, <<Run("a", 1)>>, <<Run(" ", 1), Run("a", 1), Run(" ", 1)>>,
     <<Run("a", MaxTitleLen)>>, <<Run("a", MaxTitleLen + 1)>>,
     <<Run("U+00E9", 128)>>, <<Run("U+00E9", MaxTitleLen)>>, <<Run("U+00E9", MaxTitleLen + 1)>>}

ValidationDescriptions ==
    {<<Run("a", MaxDescriptionLen)>>, <<Run("a", MaxDescriptionLen + 1)>>}

CreateRequests ==
    [kind : {"create"}, title : ValidationTitles,
     description : Option(ValidationDescriptions),
     priority : Option({"High"}), due_date : Option(Time)]

UpdateRequests ==
    [kind : {"update"}, title : Option(ValidationTitles),
     description : Option(ValidationDescriptions),
     priority : Option({"High"}), status : Option({"Completed"}),
     due_date : Option(Time)]

TitleEmpty == "Title cannot be empty"
TitleTooLong == "Title must be 255 characters or less"
DescriptionTooLong == "Description must be 2000 characters or less"
DueDateNotFuture == "Due date must be in the future"

Ok == [ok |-> TRUE, err |-> ""]
Err(msg) == [ok |-> FALSE, err |-> msg]

\* CreateTaskRequest::validate that accepts a due date equal to now.
CreateValidateDueNow(req, now) ==
    IF IsEmpty(Trim(req.title)) THEN Err(TitleEmpty)
    ELSE IF StrLen(req.title) > MaxTitleLen THEN Err(TitleTooLong)
    ELSE IF IsSome(req.description) /\ StrLen(Unwrap(req.description)) > MaxDescriptionLen
         THEN Err(DescriptionTooLong)
    ELSE IF IsSome(req.due_date) /\ Unwrap(req.due_date) < now
         THEN Err(DueDateNotFuture)
    ELSE Ok

\* CreateTaskRequest::validate
CreateValidate(req, now) ==
    IF IsEmpty(Trim(req.title)) THEN Err(TitleEmpty)
    ELSE IF StrLen(req.title) > MaxTitleLen THEN Err(TitleTooLong)
    ELSE IF IsSome(req.description) /\ StrLen(Unwrap(req.description)) > MaxDescriptionLen
         THEN Err(DescriptionTooLong)
    ELSE IF IsSome(req.due_date) /\ Unwrap(req.due_date) <= now
         THEN Err(DueDateNotFuture)
    ELSE Ok

\* UpdateTaskRequest::validate
UpdateValidate(req, now) ==
    IF IsSome(req.title) /\ IsEmpty(Trim(Unwrap(req.title))) THEN Err(TitleEmpty)
    ELSE IF IsSome(req.title) /\ StrLen(Unwrap(req.title)) > MaxTitleLen
         THEN Err(TitleTooLong)
    ELSE IF IsSome(req.description) /\ StrLen(Unwrap(req.description)) > MaxDescriptionLen
         THEN Err(DescriptionTooLong)
    ELSE IF IsSome(req.due_date) /\ Unwrap(req.due_date) <= now
         THEN Err(DueDateNotFuture)
    ELSE Ok

\* create_task: the title checks in front of the call of the service.  Ok
\* stands for the payload being handed to TaskService::create.
CreateTaskChecks(payload) ==
    IF IsEmpty(Trim(payload.title)) THEN Err(TitleEmpty)
    ELSE IF StrLen(payload.title) > 255 THEN Err(TitleTooLong)
    ELSE Ok

\* update_task: the title checks in front of the call of the service.
UpdateTaskChecks(payload) ==
    IF IsSome(payload.title)
    THEN IF IsEmpty(Trim(Unwrap(payload.title))) THEN Err(TitleEmpty)
         ELSE IF StrLen(Unwrap(payload.title)) > 255 THEN Err(TitleTooLong)
         ELSE Ok
    ELSE Ok

CreateValidateCall ==
    /\ request.kind = "create"
    /\ \E reads \in ClockReads(clock, 1) :
        /\ ret' = [fn |-> "validate", value |-> CreateValidate(request, reads[1])]
        /\ clock' = Last(reads)
        /\ call' = [op |-> "create_validate", arg |-> NoArg, reads |-> reads]
    /\ UNCHANGED <<task, everCompleted, errVars, dtoVars>>

UpdateValidateCall ==
    /\ request.kind = "update"
    /\ \E reads \in ClockReads(clock, 1) :
        /\ ret' = [fn |-> "validate", value |-> UpdateValidate(request, reads[1])]
        /\ clock' = Last(reads)
        /\ call' = [op |-> "update_validate", arg |-> NoArg, reads |-> reads]
    /\ UNCHANGED <<task, everCompleted, errVars, dtoVars>>

CreateTaskCall ==
    /\ request.kind = "create"
    /\ ret' = [fn |-> "create_task", value |-> CreateTaskChecks(request)]
    /\ call' = [op |-> "create_task", arg |-> NoArg, reads |-> <<>>]
    /\ UNCHANGED <<task, clock, everCompleted, errVars, dtoVars>>

UpdateTaskCall ==
    /\ request.kind = "update"
    /\ ret' = [fn |-> "update_task", value |-> UpdateTaskChecks(request)]
    /\ call' = [op |-> "update_task", arg |-> NoArg, reads |-> <<>>]
    /\ UNCHANGED <<task, clock, everCompleted, errVars, dtoVars>>

InitValidate ==
    /\ clock = 0
    /\ task = TaskNew("u2", "t1", "u1", <<0>>)
    /\ call = [op |-> "new", arg |-> NoArg, reads |-> <<0>>]
    /\ everCompleted = FALSE
    /\ ret = NoReturn
    /\ err = NoError
    /\ response = NoResponse
    /\ log = <<>>
    /\ effects = <<>>
    /\ query = NoQuery
    /\ request \in CreateRequests \cup UpdateRequests

NextValidate ==
    \/ CreateValidateCall
    \/ UpdateValidateCall
    \/ CreateTaskCall
    \/ UpdateTaskCall

SpecValidate == InitValidate /\ [][NextValidate]_vars

----------------------------------------------------------------------------
(* Properties of request validation, checked under SpecValidate *)

TitleChecked == ret.fn \in {"validate", "create_task", "update_task"}

\* The title the request carries, as an Option.
RequestTitle == IF request.kind = "create" THEN Some(request.title) ELSE request.title

\* Every character of the string is whitespace.
Blank(str) == \A i \in 1..Len(str) : str[i].n = 0 \/ str[i].ch = " "

RejectedForTitle == ~ret.value.ok /\ ret.value.err \in {TitleEmpty, TitleTooLong}

\* C14: validate and the handlers' title checks reject a title exactly when
\* it is present and either blank after trimming or longer than 255
\* characters, the length being counted in characters; an absent title is
\* never a reason to reject an update.
C14_TitleRule ==
    TitleChecked =>
        (RejectedForTitle <=>
            /\ IsSome(RequestTitle)
            /\ \/ Blank(Unwrap(RequestTitle))
               \/ StrLenChars(Unwrap(RequestTitle)) > 255)

\* C15: a request that passes the title and description checks and carries a
\* due date is accepted exactly when the due date is strictly later than the
\* time validate reads; a due date equal to that time or earlier is rejected
\* for the due date, and a request without a due date never is.
C15_DueDateRule ==
    (ret.fn = "validate"
       /\ ret.value.err \notin {TitleEmpty, TitleTooLong, DescriptionTooLong}) =>
        LET now == call.reads[1] IN
        IF IsSome(request.due_date)
        THEN /\ ret.value.ok <=> Unwrap(request.due_date) > now
             /\ ~ret.value.ok => ret.value.err = DueDateNotFuture
        ELSE ret.value.ok

\* A create request whose due date equals the time of validation is rejected.
C15_Witness ==
    /\ ret.fn = "validate"
    /\ call.op = "create_validate"
    /\ request.due_date = Some(call.reads[1])
    /\ call.reads[1] > 0
    /\ ret.value = Err(DueDateNotFuture)

----------------------------------------------------------------------------
(* The overdue filter against Task::is_overdue.  The clause is evaluated as *)
(* the storage engine evaluates a WHERE condition: comparisons with NULL    *)
(* are unknown, and a row is selected when the condition is true.           *)

\* The row a task is stored as: enums as their lower-case names
\* (#[sqlx(rename_all = "lowercase")]), an absent value as NULL (None).
TaskRow(t) ==
    [id |-> Some(UuidToString(t.id)),
     status |-> Some(DebugLowercase(t.status)),
     priority |-> Some(DebugLowercase(t.priority)),
     user_id |-> Some(UuidToString(t.user_id)),
     due_date |-> t.due_date]

\* The value of an operand of a predicate; k is the next parameter to bind.
SqlOperand(word, row, params, k, now) ==
    CASE word = "NOW()" -> Some(now)
      [] word = "?" -> Some(params[k])
      [] word = "'completed'" -> Some("completed")
      [] OTHER -> row[word]

SqlCompare(op, a, b) ==
    IF a = None \/ b = None THEN "unknown"
    ELSE LET holds == CASE op = "=" -> Unwrap(a) = Unwrap(b)
                        [] op = "!=" -> Unwrap(a) /= Unwrap(b)
                        [] op = "<" -> Unwrap(a) < Unwrap(b)
         IN IF holds THEN "true" ELSE "false"

SqlAnd(x, y) ==
    IF x = "false" \/ y = "false" THEN "false"
    ELSE IF x = "unknown" \/ y = "unknown" THEN "unknown"
    ELSE "true"

\* The truth value of a clause of build_where_clause: 1=1, or three-word
\* predicates joined by AND.
RECURSIVE SqlEval(_, _, _, _, _)
SqlEval(clause, row, params, k, now) ==
    IF clause = TrueCondition THEN "true"
    ELSE LET v == SqlCompare(clause[2],
                             SqlOperand(clause[1], row, params, k, now),
                             SqlOperand(clause[3], row, params, k, now))
             k2 == IF clause[3] = "?" THEN k + 1 ELSE k
         IN IF Len(clause) <= 3 THEN v
            ELSE SqlAnd(v, SqlEval(SubSeq(clause, 5, Len(clause)), row, params, k2, now))

\* WHERE <clause> selects the row.
Selects(where, row, now) == SqlEval(where.clause, row, where.params, 1, now) = "true"

\* The query that asks for the overdue tasks only.
OverdueQuery ==
    [status |-> None, priority |-> None, user_id |-> None, overdue |-> Some(TRUE),
     page |-> None, limit |-> None]

\* C16: for every reachable task and every instant, the overdue filter that
\* build_where_clause emits selects the task's row exactly when is_overdue
\* is true at that instant.
C16_OverdueFilterAgrees ==
    /\ \A now \in Time :
         Selects(BuildWhereClause(OverdueQuery), TaskRow(task), now)
            = TaskIsOverdue(task, now)
    /\ call.op = "is_overdue" =>
         ret.value = Selects(BuildWhereClause(OverdueQuery), TaskRow(task), call.reads[1])

\* A task that was completed, moved away from Completed and is past its due
\* date is overdue and selected by the filter.
C16_Witness ==
    /\ call.op = "is_overdue"
    /\ everCompleted
    /\ task.status = "Cancelled"
    /\ IsSome(task.due_date)
    /\ ret.value = TRUE
    /\ Selects(BuildWhereClause(OverdueQuery), TaskRow(task), call.reads[1])

====
